---- MODULE Spec2Model ----
(***************************************************************************)
(* Blinded ECDH with an HSM-held key: the elliptic-curve helpers of        *)
(* lib/crypto.ts, the HKDF of lib/hkdf.ts and the Demo component that      *)
(* sequences them.                                                          *)
(*                                                                         *)
(* Strings are sequences of one-character strings, byte arrays are         *)
(* sequences of 0..255.  The curve of @noble/curves/p256 is replaced by a  *)
(* short Weierstrass curve of the same shape (a = -3, prime group order,   *)
(* cofactor 1) over a small prime field; coordinates and scalars keep      *)
(* their 32-byte big-endian encoding.  HMAC-SHA-256 of the platform is     *)
(* replaced by a keyed polynomial hash with the HMAC key preparation       *)
(* (zero padding to the block length) and a 32-byte output.                *)
(***************************************************************************)
EXTENDS Integers, Sequences, FiniteSets, TLC

VARIABLES
  ec,      \* a caller of the curve helpers: its scalars and the points computed so far
  hk,      \* the calls of hkdf / hkdfWithSteps in flight: locals and position of each
  hkMode,  \* which callers of lib/hkdf are running: one caller or two concurrent ones
  state,   \* the CryptoState of the Demo component
  pending, \* the handlers of the Demo that wait for crypto.subtle, with what they will store
  now,     \* the clock, Math.floor(Date.now() / 1000)
  run,     \* the next step of the protocol run in the Demo, -1 when the Demo is not mounted
  lib,     \* one call of a function of lib/crypto or of a hex codec: arguments and result
  clicks,  \* the number of events the user of the Demo has caused outside the order of the run
  runs     \* two protocol runs on the library: the scalars and the points of each so far

vars == <<ec, hk, hkMode, state, pending, now, run, lib, clicks, runs>>

ecVars == <<ec>>

hkVars == <<hk, hkMode>>

demoVars == <<state, pending, now, run, clicks>>

libVars == <<lib>>

pairVars == <<runs>>

----------------------------------------------------------------------------
(* Characters, bytes and the hex codec                                       *)

HexDigits == <<"0","1","2","3","4","5","6","7","8","9","a","b","c","d","e","f">>

UpperHex == <<"A","B","C","D","E","F">>

\* value of a hex digit as parseInt / BigInt read it, -1 for any other character
DigitVal(c) ==
  IF \E i \in 1..16 : HexDigits[i] = c
  THEN (CHOOSE i \in 1..16 : HexDigits[i] = c) - 1
  ELSE IF \E i \in 1..6 : UpperHex[i] = c
       THEN (CHOOSE i \in 1..6 : UpperHex[i] = c) + 9
       ELSE -1

\* b.toString(16).padStart(2, '0')
ByteToHex(b) == <<HexDigits[(b \div 16) + 1], HexDigits[(b % 16) + 1]>>

BytesToHexDigits(bytes) ==
  [k \in 1..(2 * Len(bytes)) |-> ByteToHex(bytes[(k + 1) \div 2])[2 - (k % 2)]]

\* '0x' + Array.from(bytes).map(b => b.toString(16).padStart(2, '0')).join('')
arrayBufferToHex(buffer) == <<"0", "x">> \o BytesToHexDigits(buffer)

\* String.prototype.replace('0x', ''): removes the first occurrence only
Replace0x(s) ==
  LET hits == {i \in 1..(Len(s) - 1) : s[i] = "0" /\ s[i + 1] = "x"}
  IN  IF hits = {} THEN s
      ELSE LET i == CHOOSE k \in hits : \A m \in hits : k <= m
           IN  SubSeq(s, 1, i - 1) \o SubSeq(s, i + 2, Len(s))

\* String.prototype.substr(start, 2), start counted from 0
Substr2(s, start) ==
  SubSeq(s, start + 1, IF start + 2 <= Len(s) THEN start + 2 ELSE Len(s))

\* parseInt reading one digit only
ParseInt16ByteFirstDigit(t) ==
  IF t = <<>> \/ DigitVal(t[1]) < 0 THEN 0 ELSE DigitVal(t[1])

\* parseInt(t, 16) stored into a Uint8Array element: the longest prefix of
\* hex digits is read, NaN (no digit at all) is stored as 0
ParseInt16Byte(t) ==
  IF t = <<>> \/ DigitVal(t[1]) < 0 THEN 0
  ELSE IF Len(t) = 1 \/ DigitVal(t[2]) < 0 THEN DigitVal(t[1])
  ELSE DigitVal(t[1]) * 16 + DigitVal(t[2])

\* hexToArrayBuffer: new Uint8Array(cleanHex.length / 2) truncates the
\* length, writes past the end are ignored
hexToArrayBuffer(hex) ==
  LET cleanHex == Replace0x(hex)
  IN  [k \in 1..(Len(cleanHex) \div 2) |-> ParseInt16Byte(Substr2(cleanHex, 2 * (k - 1)))]

----------------------------------------------------------------------------
(* Big integers: exact below BigIntCap, saturating at BigIntCap above       *)

BigIntCap == 1000

Sat(v) == IF v > BigIntCap THEN BigIntCap ELSE v

\* the value of a digit string, most significant digit first: every string
\* with a nonzero digit above the three lowest is at least base^3 > BigIntCap
DigitsValue(digits, base) ==
  LET len == Len(digits)
      D(j) == IF j >= 1 THEN digits[j] ELSE 0
  IN  IF \E j \in 1..(len - 3) : digits[j] # 0 THEN BigIntCap
      ELSE Sat(D(len - 2) * base * base + D(len - 1) * base + D(len))

\* BigInt('0x' + cleanHex): a SyntaxError unless cleanHex is a non-empty
\* string of hex digits
BigIntOk(cleanHex) ==
  /\ cleanHex # <<>>
  /\ \A i \in 1..Len(cleanHex) : DigitVal(cleanHex[i]) >= 0

BigIntOfHex(cleanHex) ==
  DigitsValue([i \in 1..Len(cleanHex) |-> DigitVal(cleanHex[i])], 16)

\* bytesToNumberBE
BytesToNumberBE(bytes) == DigitsValue(bytes, 256)

\* numberToBytesBE(v, len) for v <= BigIntCap < 256^2
NumberToBytesBE(v, len) ==
  [k \in 1..len |-> IF k = len THEN v % 256
                    ELSE IF k = len - 1 THEN (v \div 256) % 256
                    ELSE 0]

----------------------------------------------------------------------------
(* The curve: y^2 = x^3 + CurveA*x + CurveB over GF(FieldP), generator      *)
(* (Gx, Gy) of prime order CurveN                                           *)

FieldP == 11
CurveA == 8
CurveB == 10
CurveN == 7
Gx == 2
Gy == 1

CoordLen == 32

ZERO == [inf |-> TRUE, x |-> 0, y |-> 0]

Affine(px, py) == [inf |-> FALSE, x |-> px, y |-> py]

BASE == Affine(Gx, Gy)

FInv(v) == CHOOSE i \in 1..(FieldP - 1) : (v * i) % FieldP = 1

OnCurve(px, py) ==
  (py * py) % FieldP = (px * px * px + CurveA * px + CurveB) % FieldP

PointAdd(P, Q) ==
  IF P.inf THEN Q
  ELSE IF Q.inf THEN P
  ELSE IF P.x = Q.x /\ (P.y + Q.y) % FieldP = 0 THEN ZERO
  ELSE LET lam == IF P.x = Q.x
                  THEN ((3 * P.x * P.x + CurveA) * FInv((2 * P.y) % FieldP)) % FieldP
                  ELSE (((Q.y - P.y) % FieldP) * FInv((Q.x - P.x) % FieldP)) % FieldP
           rx  == (lam * lam - P.x - Q.x) % FieldP
           ry  == (lam * (P.x - rx) - P.y) % FieldP
       IN  Affine(rx, ry)

\* k * P by double-and-add
RECURSIVE PointMul(_, _)
PointMul(k, P) ==
  IF k = 0 THEN ZERO
  ELSE LET half == PointMul(k \div 2, P)
           dbl  == PointAdd(half, half)
       IN  IF k % 2 = 1 THEN PointAdd(dbl, P) ELSE dbl

\* the scalar range every noble entry point asserts: 0 < k < n
ValidScalar(k) == 0 < k /\ k < CurveN

Ok(v) == [ok |-> TRUE, val |-> v]

Fail(e) == [ok |-> FALSE, val |-> e]

\* fromHex without the test of the curve equation
PointFromHexNoCurveCheck(bytes) ==
  IF Len(bytes) # 2 * CoordLen + 1 \/ bytes[1] # 4 THEN Fail("bad point encoding")
  ELSE LET px == BytesToNumberBE(SubSeq(bytes, 2, CoordLen + 1))
           py == BytesToNumberBE(SubSeq(bytes, CoordLen + 2, 2 * CoordLen + 1))
       IN  IF ~(px < FieldP /\ py < FieldP) THEN Fail("invalid affine point")
           ELSE IF px = 0 /\ py = 0 THEN Fail("bad point: ZERO")
           ELSE Ok(Affine(px, py))

\* p256.ProjectivePoint.fromHex(bytes) for the uncompressed encoding
PointFromHex(bytes) ==
  IF Len(bytes) # 2 * CoordLen + 1 \/ bytes[1] # 4 THEN Fail("bad point encoding")
  ELSE LET px == BytesToNumberBE(SubSeq(bytes, 2, CoordLen + 1))
           py == BytesToNumberBE(SubSeq(bytes, CoordLen + 2, 2 * CoordLen + 1))
       IN  IF ~(px < FieldP /\ py < FieldP) THEN Fail("invalid affine point")
           ELSE IF px = 0 /\ py = 0 THEN Fail("bad point: ZERO")
           ELSE IF ~OnCurve(px, py) THEN Fail("bad point: equation")
           ELSE Ok(Affine(px, py))

\* point.multiply(scalar)
PointMultiply(P, k) ==
  IF ~ValidScalar(k) THEN Fail("invalid scalar") ELSE Ok(PointMul(k, P))

\* point.toRawBytes(false)
PointToRawBytes(P) ==
  IF P.inf THEN Fail("bad point: ZERO")
  ELSE Ok(<<4>> \o NumberToBytesBE(P.x, CoordLen) \o NumberToBytesBE(P.y, CoordLen))

\* p256.getPublicKey(k, false)
GetPublicKey(k) ==
  IF ~ValidScalar(k) THEN Fail("invalid private key")
  ELSE PointToRawBytes(PointMul(k, BASE))

----------------------------------------------------------------------------
(* lib/crypto.ts                                                             *)

ECPoint(px, py) == [x |-> px, y |-> py]

EmptyPoint == ECPoint(<<>>, <<>>)

\* the hex digits without the prefix
CoordHexNoPrefix(bytes) == BytesToHexDigits(bytes)

\* the hex digits of a result coordinate, '0x' + ...
CoordHex(bytes) == <<"0", "x">> \o BytesToHexDigits(bytes)

\* y taken from bytes 1..32 and x from bytes 33..64
RawBytesToECPointSwapped(raw, msg) ==
  IF raw[1] # 4 \/ Len(raw) # 2 * CoordLen + 1 THEN Fail(msg)
  ELSE Ok(ECPoint(CoordHex(SubSeq(raw, CoordLen + 2, 2 * CoordLen + 1)),
                  CoordHex(SubSeq(raw, 2, CoordLen + 1))))

RawBytesToECPoint(raw, msg) ==
  IF raw[1] # 4 \/ Len(raw) # 2 * CoordLen + 1 THEN Fail(msg)
  ELSE Ok(ECPoint(CoordHex(SubSeq(raw, 2, CoordLen + 1)),
                  CoordHex(SubSeq(raw, CoordLen + 2, 2 * CoordLen + 1))))

generatePrivateKey(randomBytes) == arrayBufferToHex(randomBytes)

generateBlind(randomBytes) == generatePrivateKey(randomBytes)

privateKeyToPublicKey(privateKeyHex) ==
  LET cleanHex == Replace0x(privateKeyHex)
  IN  IF ~BigIntOk(cleanHex) THEN Fail("SyntaxError")
      ELSE LET raw == GetPublicKey(BigIntOfHex(cleanHex))
           IN  IF ~raw.ok THEN raw
               ELSE RawBytesToECPoint(raw.val, "Invalid public key format")

\* the try block of performECDH
performECDHTry(privateKeyHex, publicKeyPoint) ==
  LET cleanPrivateHex == Replace0x(privateKeyHex)
      cleanXHex == Replace0x(publicKeyPoint.x)
      cleanYHex == Replace0x(publicKeyPoint.y)
      xBytes == [i \in 1..CoordLen |-> ParseInt16Byte(Substr2(cleanXHex, 2 * (i - 1)))]
      yBytes == [i \in 1..CoordLen |-> ParseInt16Byte(Substr2(cleanYHex, 2 * (i - 1)))]
      publicKeyBytes == <<4>> \o xBytes \o yBytes
      point == PointFromHex(publicKeyBytes)
  IN  IF ~BigIntOk(cleanPrivateHex) THEN Fail("SyntaxError")
      ELSE IF ~point.ok THEN point
      ELSE LET resultPoint == PointMultiply(point.val, BigIntOfHex(cleanPrivateHex))
           IN  IF ~resultPoint.ok THEN resultPoint
               ELSE LET resultBytes == PointToRawBytes(resultPoint.val)
                    IN  IF ~resultBytes.ok THEN resultBytes
                        ELSE RawBytesToECPoint(resultBytes.val, "Invalid ECDH result format")

\* a catch block that logs and returns instead of rethrowing
performECDHSwallowed(privateKeyHex, publicKeyPoint) ==
  LET r == performECDHTry(privateKeyHex, publicKeyPoint)
  IN  IF r.ok THEN r ELSE Ok(EmptyPoint)

\* catch (error) { console.error(...); throw error; }
performECDH(privateKeyHex, publicKeyPoint) ==
  LET r == performECDHTry(privateKeyHex, publicKeyPoint)
  IN  IF r.ok THEN r ELSE Fail(r.val)

scalarMultiplication(scalar, point) == performECDH(scalar, point)

\* a pair whose public point is G whatever the private key
generateECKeyPairBasePoint(randomBytes) ==
  LET privateKey == arrayBufferToHex(randomBytes)
      publicKey == privateKeyToPublicKey(privateKey)
  IN  IF ~publicKey.ok THEN publicKey
      ELSE Ok([privateKey |-> privateKey,
               publicKey |-> ECPoint(CoordHex(NumberToBytesBE(Gx, CoordLen)),
                                     CoordHex(NumberToBytesBE(Gy, CoordLen)))])

\* [d]G in place of [db]G: the blind is left out
calculateDbGNoBlind(hsmPrivateKey, blind) == privateKeyToPublicKey(hsmPrivateKey)

\* [b]G in place of [db]G: the HSM key is left out
calculateDbGBlindOnly(hsmPrivateKey, blind) == privateKeyToPublicKey(blind)

calculateDbG(hsmPrivateKey, blind) ==
  LET blindPublicKey == privateKeyToPublicKey(blind)
  IN  IF ~blindPublicKey.ok THEN blindPublicKey
      ELSE performECDH(hsmPrivateKey, blindPublicKey.val)

generateECKeyPair(randomBytes) ==
  LET privateKey == arrayBufferToHex(randomBytes)
      publicKey == privateKeyToPublicKey(privateKey)
  IN  IF ~publicKey.ok THEN publicKey
      ELSE Ok([privateKey |-> privateKey, publicKey |-> publicKey.val])

\* keyBytes[0] of an empty array is undefined
extractPublicKeyCoordinates(rawKey) ==
  IF rawKey = <<>> THEN Fail("Invalid public key format")
  ELSE IF rawKey[1] # 4 \/ Len(rawKey) # 2 * CoordLen + 1 THEN Fail("Invalid public key format")
  ELSE Ok(ECPoint(arrayBufferToHex(SubSeq(rawKey, 2, CoordLen + 1)),
                  arrayBufferToHex(SubSeq(rawKey, CoordLen + 2, 2 * CoordLen + 1))))

\* the private CryptoKey of crypto.subtle.generateKey, which draws the scalar
\* generated; privateKeyHex is not read
createPrivateKeyFromHex(privateKeyHex, generated) ==
  [type |-> "private", scalar |-> generated]

----------------------------------------------------------------------------
(* Text encoding                                                             *)

\* the printable ASCII characters, code points 32..126
Printable ==
  <<" ","!","\"","#","$","%","&","'","(",")","*","+",",","-",".","/",
    "0","1","2","3","4","5","6","7","8","9",":",";","<","=",">","?",
    "@","A","B","C","D","E","F","G","H","I","J","K","L","M","N","O",
    "P","Q","R","S","T","U","V","W","X","Y","Z","[","\\","]","^","_",
    "U+0060","a","b","c","d","e","f","g","h","i","j","k","l","m","n","o",
    "p","q","r","s","t","u","v","w","x","y","z","{","|","}","~">>

\* the code point of a character; "NUL" is U+0000, "U+0060" the grave accent,
\* "U+00E9" is e with acute
CodePoint(c) ==
  IF c = "NUL" THEN 0
  ELSE IF c = "U+00E9" THEN 233
  ELSE 31 + (CHOOSE k \in 1..Len(Printable) : Printable[k] = c)

\* the UTF-8 bytes of one character below U+0800
Utf8(c) ==
  LET cp == CodePoint(c)
  IN  IF cp < 128 THEN <<cp>> ELSE <<192 + (cp \div 64), 128 + (cp % 64)>>

\* the position in str of the character that holds the k-th byte
RECURSIVE CharOfByte(_, _, _)
CharOfByte(str, k, j) ==
  IF k <= Len(Utf8(str[j])) THEN <<j, k>>
  ELSE CharOfByte(str, k - Len(Utf8(str[j])), j + 1)

\* new TextEncoder().encode(str)
TextEncode(str) ==
  IF \A j \in 1..Len(str) : CodePoint(str[j]) < 128
  THEN [k \in 1..Len(str) |-> CodePoint(str[k])]
  ELSE LET total == Len(str) + Cardinality({j \in 1..Len(str) : CodePoint(str[j]) >= 128})
       IN  [k \in 1..total |->
              LET at == CharOfByte(str, k, 1) IN Utf8(str[at[1]])[at[2]]]

----------------------------------------------------------------------------
(* HMAC-SHA-256 (crypto.subtle.importKey / crypto.subtle.sign)               *)

HashLen == 32

BlockLen == 64

HashMod == 8388593

\* the weight of the i-th byte of a message
Weight(i) == (i * i * 7919 + i * 104729 + 12345) % HashMod

\* the weighted sum of data[lo..hi] modulo HashMod
RECURSIVE WeightedSum(_, _, _)
WeightedSum(data, lo, hi) ==
  IF lo > hi THEN 0
  ELSE IF lo = hi THEN ((data[lo] + 1) * Weight(lo)) % HashMod
  ELSE LET mid == (lo + hi) \div 2
       IN  (WeightedSum(data, lo, mid) + WeightedSum(data, mid + 1, hi)) % HashMod

\* the 32 bytes of a digest
DigestBytes(h) ==
  [j \in 1..HashLen |->
     IF j = 1 THEN (h \div 65536) % 256
     ELSE IF j = 2 THEN (h \div 256) % 256
     ELSE IF j = 3 THEN h % 256
     ELSE ((h % 251) * j + (h \div 251) + j * j) % 256]

Hash(data) == DigestBytes((WeightedSum(data, 1, Len(data)) + 40503 * Len(data)) % HashMod)

\* the key block of HMAC: a key longer than the block is hashed, every key is
\* padded with zero bytes to the block length
HmacKeyBlock(key) ==
  LET k0 == IF Len(key) > BlockLen THEN Hash(key) ELSE key
  IN  [j \in 1..BlockLen |-> IF j <= Len(k0) THEN k0[j] ELSE 0]

\* crypto.subtle.sign('HMAC', key, data)
Hmac(key, data) == Hash(HmacKeyBlock(key) \o data)

----------------------------------------------------------------------------
(* lib/hkdf.ts: hkdf and hkdfWithSteps, one step per await                   *)

Zeros(len) == [j \in 1..len |-> 0]

\* saltBytes.length > 0 ? saltBytes : new Uint8Array(32)
ExtractKeyZeroBlock(saltBytes) == IF Len(saltBytes) > 0 THEN saltBytes ELSE Zeros(BlockLen)

ExtractKey(saltBytes) == IF Len(saltBytes) > 0 THEN saltBytes ELSE Zeros(32)

\* Math.ceil(length / 32)
BlockCount(length) == (length + (HashLen - 1)) \div HashLen

\* input = t || infoBytes || i, the last element stored into a Uint8Array
ExpandInputCounterFromZero(t, infoBytes, i) == t \o infoBytes \o <<(i - 1) % 256>>

\* t declared outside the function: every call reads the buffer of the first
ExpandInputSharedBuffer(t, infoBytes, i) == hk[1].t \o infoBytes \o <<i % 256>>

ExpandInput(t, infoBytes, i) == t \o infoBytes \o <<i % 256>>

\* the i-th block of 32 bytes of okm, the empty string for i = 0
OkmBlock(okm, i) == IF i = 0 THEN <<>> ELSE SubSeq(okm, HashLen * (i - 1) + 1, HashLen * i)

\* okm.slice(0, length)
Slice(okm, length) == SubSeq(okm, 1, IF length < Len(okm) THEN length ELSE Len(okm))

\* the copy of the hex codec in lib/hkdf.ts
hkdfArrayBufferToHex(buffer) == <<"0", "x">> \o BytesToHexDigits(buffer)

hkdfHexToArrayBuffer(hex) ==
  LET cleanHex == Replace0x(hex)
  IN  [k \in 1..(Len(cleanHex) \div 2) |-> ParseInt16Byte(Substr2(cleanHex, 2 * (k - 1)))]

----------------------------------------------------------------------------
(* Initial values                                                            *)

None == [ok |-> FALSE, val |-> "not called"]

Called(r) == r # None

EcIdle ==
  [d |-> None, b |-> None, v |-> None, pair |-> None,
   V |-> None, B |-> None, Sp |-> None, D |-> None, Sv |-> None]

IdleCall ==
  [fn |-> "none", pc |-> "idle", ikm |-> <<>>, salt |-> <<>>, info |-> <<>>, length |-> 0,
   saltBytes |-> <<>>, infoBytes |-> <<>>, extractKey |-> <<>>, prk |-> <<>>,
   expandKey |-> <<>>, n |-> 0, i |-> 0, t |-> <<>>, okm |-> <<>>, result |-> None]

HkIdle == [c \in 1..2 |-> IdleCall]

RunsIdle == [r \in 1..2 |-> EcIdle]

\* no function of the library has been called
LibIdle == [fn |-> "none", args |-> <<>>, out |-> None, next |-> None]

\* JSON texts of the payload field: what JSON.parse makes of the text, and the
\* iat and exp members of a parsed object (Absent, NotANumber or seconds)
Absent == -1

NotANumber == -2

PayloadText(json, iat, exp) == [json |-> json, iat |-> iat, exp |-> exp]

\* JSON.stringify({ sub: 'user123', iat: t, exp: t + 3600 }, null, 2)
DefaultPayload(t) == PayloadText("object", t, t + 3600)

\* the initial value of useState, also what resetAll stores
InitialState(t) ==
  [hsmPrivateKey |-> <<>>, hsmPublicKey |-> [x |-> <<>>, y |-> <<>>],
   validatorPrivateKey |-> <<>>, validatorPublicKey |-> [x |-> <<>>, y |-> <<>>],
   hsmKeyRevealed |-> FALSE,
   blind |-> <<>>, blindedValidatorPublicKey |-> [x |-> <<>>, y |-> <<>>],
   hsmEcdhResult |-> [x |-> <<>>, y |-> <<>>],
   hkdfSalt |-> <<>>,
   hkdfInfo |-> <<"H","S","2","5","6"," ","s","i","g","n","a","t","u","r","e"," ","k","e","y">>,
   hkdfPrk |-> <<>>, hmacKey |-> <<>>,
   jwtPayload |-> DefaultPayload(t), jwt |-> <<>>,
   dbPublicKey |-> [x |-> <<>>, y |-> <<>>],
   validatorEcdhResult |-> [x |-> <<>>, y |-> <<>>],
   validatorHmacKey |-> <<>>, validationResult |-> ""]

\* the Demo component is not mounted
DemoOff ==
  /\ state = InitialState(0)
  /\ pending = {}
  /\ now = 0
  /\ run = -1
  /\ clicks = 0

----------------------------------------------------------------------------
(* A caller of lib/crypto.ts: draws three scalars d, b, v and computes the   *)
(* producer's and the validator's shared secret from them                    *)

MaxDraw == 8

\* crypto.getRandomValues on 32 bytes: the small values and the all-ones draw
RandomDraws ==
  {NumberToBytesBE(k, CoordLen) : k \in 0..MaxDraw} \cup {[i \in 1..CoordLen |-> 255]}

EcInit ==
  /\ ec = EcIdle
  /\ hk = HkIdle
  /\ hkMode = "off"
  /\ DemoOff
  /\ lib = LibIdle
  /\ runs = RunsIdle

\* d = generatePrivateKey()
EcGenerateD ==
  /\ ~Called(ec.d)
  /\ \E r \in RandomDraws : ec' = [ec EXCEPT !.d = Ok(generatePrivateKey(r))]
  /\ UNCHANGED <<hkVars, demoVars, libVars, pairVars>>

\* b = generateBlind()
EcGenerateB ==
  /\ Called(ec.d) /\ ~Called(ec.b)
  /\ \E r \in RandomDraws : ec' = [ec EXCEPT !.b = Ok(generateBlind(r))]
  /\ UNCHANGED <<hkVars, demoVars, libVars, pairVars>>

\* { privateKey: v, publicKey: V } = await generateECKeyPair(), or
\* v = generatePrivateKey() with the public point computed separately
EcGenerateV ==
  /\ Called(ec.b) /\ ~Called(ec.v)
  /\ \E r \in RandomDraws :
       \/ LET pair == generateECKeyPair(r)
          IN  ec' = [ec EXCEPT !.pair = pair,
                               !.v = IF pair.ok THEN Ok(pair.val.privateKey) ELSE pair,
                               !.V = IF pair.ok THEN Ok(pair.val.publicKey) ELSE pair]
       \/ ec' = [ec EXCEPT !.v = Ok(generatePrivateKey(r))]
  /\ UNCHANGED <<hkVars, demoVars, libVars, pairVars>>

\* V = await privateKeyToPublicKey(v)
EcPublicKey ==
  /\ ec.v.ok /\ ~Called(ec.V)
  /\ ec' = [ec EXCEPT !.V = privateKeyToPublicKey(ec.v.val)]
  /\ UNCHANGED <<hkVars, demoVars, libVars, pairVars>>

\* B = await scalarMultiplication(b, V)
EcBlind ==
  /\ ec.V.ok /\ ~Called(ec.B)
  /\ ec' = [ec EXCEPT !.B = scalarMultiplication(ec.b.val, ec.V.val)]
  /\ UNCHANGED <<hkVars, demoVars, libVars, pairVars>>

\* S_p = await performECDH(d, B)
EcProducerECDH ==
  /\ ec.B.ok /\ ~Called(ec.Sp)
  /\ ec' = [ec EXCEPT !.Sp = performECDH(ec.d.val, ec.B.val)]
  /\ UNCHANGED <<hkVars, demoVars, libVars, pairVars>>

\* D = await calculateDbG(d, b)
EcDbG ==
  /\ Called(ec.V) /\ (ec.V.ok => Called(ec.B)) /\ (ec.B.ok => Called(ec.Sp))
  /\ ~Called(ec.D)
  /\ ec' = [ec EXCEPT !.D = calculateDbG(ec.d.val, ec.b.val)]
  /\ UNCHANGED <<hkVars, demoVars, libVars, pairVars>>

\* S_v = await performECDH(v, D)
EcValidatorECDH ==
  /\ ec.v.ok /\ ec.D.ok /\ ~Called(ec.Sv)
  /\ ec' = [ec EXCEPT !.Sv = performECDH(ec.v.val, ec.D.val)]
  /\ UNCHANGED <<hkVars, demoVars, libVars, pairVars>>

EcNext ==
  \/ EcGenerateD
  \/ EcGenerateB
  \/ EcGenerateV
  \/ EcPublicKey
  \/ EcBlind
  \/ EcProducerECDH
  \/ EcDbG
  \/ EcValidatorECDH

SpecEC == EcInit /\ [][EcNext]_vars

----------------------------------------------------------------------------
(* Callers of lib/hkdf.ts                                                    *)

MaxSmallLen == 34

DefaultInfo ==
  <<"H","S","2","5","6"," ","s","i","g","n","a","t","u","r","e"," ","k","e","y">>

NulSalt == [j \in 1..32 |-> "NUL"]

IkmInputs == {NumberToBytesBE(Gx, CoordLen), NumberToBytesBE(8, CoordLen)}

SaltInputs == {<<>>, NulSalt, <<"s">>, <<"U+00E9">>}

InfoInputs == {<<>>, DefaultInfo}

HkdfInput(ikm, salt, info, length) ==
  [ikm |-> ikm, salt |-> salt, info |-> info, length |-> length]

\* the arguments a caller passes: a single caller covers the short lengths on
\* every ikm, salt and info and the lengths around 255 * 32 on one of them, two
\* concurrent callers cover a length of one block and of two
HkdfInputs ==
  IF hkMode = "single"
  THEN {HkdfInput(ikm, salt, info, length) :
          ikm \in IkmInputs, salt \in SaltInputs, info \in InfoInputs,
          length \in 0..MaxSmallLen}
       \cup {HkdfInput(NumberToBytesBE(Gx, CoordLen), <<>>, DefaultInfo, length) :
               length \in {255 * HashLen - 1, 255 * HashLen, 255 * HashLen + 1}}
  ELSE {HkdfInput(ikm, salt, DefaultInfo, length) :
          ikm \in IkmInputs, salt \in {<<>>, NulSalt}, length \in {1, HashLen + 1}}

Callers == IF hkMode = "single" THEN {1} ELSE {1, 2}

HkInit ==
  /\ ec = EcIdle
  /\ hk = HkIdle
  /\ hkMode \in {"single", "pair"}
  /\ DemoOff
  /\ lib = LibIdle
  /\ runs = RunsIdle

\* the keying material returned as the loop left it, not cut to `length`
HkdfReturnUnsliced(call) ==
  LET finalOkm == IF call.fn = "hkdf" THEN Slice(call.okm, call.length) ELSE call.okm
  IN  IF call.fn = "hkdf" THEN Ok(finalOkm)
      ELSE Ok([prk |-> call.prk, okm |-> finalOkm,
               prkHex |-> hkdfArrayBufferToHex(call.prk),
               okmHex |-> hkdfArrayBufferToHex(finalOkm)])

\* the return value once the loop is over
HkdfReturn(call) ==
  LET finalOkm == Slice(call.okm, call.length)
  IN  IF call.fn = "hkdf" THEN Ok(finalOkm)
      ELSE Ok([prk |-> call.prk, okm |-> finalOkm,
               prkHex |-> hkdfArrayBufferToHex(call.prk),
               okmHex |-> hkdfArrayBufferToHex(finalOkm)])

\* for (let i = 1; i <= n; i++): the next await of the loop, or the return
LoopOrReturn(call) ==
  IF call.i <= call.n THEN [call EXCEPT !.pc = "signExpand"]
  ELSE [call EXCEPT !.pc = "done", !.result = HkdfReturn(call)]

\* hkdf(ikm, salt, info, length) / hkdfWithSteps(...) up to the first await
HkdfEnter(fn, ikm, salt, info, length) ==
  [IdleCall EXCEPT !.fn = fn, !.pc = "importExtractKey",
                   !.ikm = ikm, !.salt = salt, !.info = info, !.length = length,
                   !.saltBytes = TextEncode(salt),
                   !.infoBytes = TextEncode(info)]

\* extractKey = await crypto.subtle.importKey('raw', salt or zeros, ...)
AfterImportExtractKey(call) ==
  [call EXCEPT !.extractKey = ExtractKey(call.saltBytes), !.pc = "signExtract"]

\* prk = await crypto.subtle.sign('HMAC', extractKey, ikm)
AfterSignExtract(call) ==
  [call EXCEPT !.prk = Hmac(call.extractKey, call.ikm), !.pc = "importExpandKey"]

\* the expand key kept in one variable of the module: every call imports the
\* PRK the module saw first
AfterImportExpandKeyModuleKey(call) ==
  LoopOrReturn([call EXCEPT !.expandKey = IF hk[1].prk # <<>> THEN hk[1].prk ELSE call.prk,
                            !.n = BlockCount(call.length),
                            !.t = <<>>, !.okm = <<>>, !.i = 1])

\* expandKey = await crypto.subtle.importKey('raw', prk, ...); n, t, okm and
\* the first test of the loop
AfterImportExpandKey(call) ==
  LoopOrReturn([call EXCEPT !.expandKey = call.prk,
                            !.n = BlockCount(call.length),
                            !.t = <<>>, !.okm = <<>>, !.i = 1])

\* t = new Uint8Array(await crypto.subtle.sign('HMAC', expandKey, input));
\* okm = okm || t; i++ and the next test of the loop
AfterSignExpand(call) ==
  LET t == Hmac(call.expandKey, ExpandInput(call.t, call.infoBytes, call.i))
  IN  LoopOrReturn([call EXCEPT !.t = t, !.okm = call.okm \o t, !.i = call.i + 1])

\* the call after its next await
AfterAwait(call) ==
  CASE call.pc = "importExtractKey" -> AfterImportExtractKey(call)
    [] call.pc = "signExtract"      -> AfterSignExtract(call)
    [] call.pc = "importExpandKey"  -> AfterImportExpandKey(call)
    [] call.pc = "signExpand"       -> AfterSignExpand(call)

\* a call run to its return with no other code in between
RECURSIVE RunToReturn(_)
RunToReturn(call) ==
  IF call.pc = "done" THEN call.result ELSE RunToReturn(AfterAwait(call))

\* await hkdf(ikm, salt, info, length)
hkdf(ikm, salt, info, length) == RunToReturn(HkdfEnter("hkdf", ikm, salt, info, length))

\* await hkdfWithSteps(ikm, salt, info, length)
hkdfWithSteps(ikm, salt, info, length) ==
  RunToReturn(HkdfEnter("hkdfWithSteps", ikm, salt, info, length))

HkdfCall(c) ==
  /\ hk[c].pc = "idle"
  /\ \E fn \in {"hkdf", "hkdfWithSteps"}, in \in HkdfInputs :
       hk' = [hk EXCEPT ![c] = HkdfEnter(fn, in.ikm, in.salt, in.info, in.length)]
  /\ UNCHANGED <<ecVars, hkMode, demoVars, libVars, pairVars>>

HkdfImportExtractKey(c) ==
  /\ hk[c].pc = "importExtractKey"
  /\ hk' = [hk EXCEPT ![c] = AfterImportExtractKey(hk[c])]
  /\ UNCHANGED <<ecVars, hkMode, demoVars, libVars, pairVars>>

HkdfSignExtract(c) ==
  /\ hk[c].pc = "signExtract"
  /\ hk' = [hk EXCEPT ![c] = AfterSignExtract(hk[c])]
  /\ UNCHANGED <<ecVars, hkMode, demoVars, libVars, pairVars>>

HkdfImportExpandKey(c) ==
  /\ hk[c].pc = "importExpandKey"
  /\ hk' = [hk EXCEPT ![c] = AfterImportExpandKey(hk[c])]
  /\ UNCHANGED <<ecVars, hkMode, demoVars, libVars, pairVars>>

HkdfSignExpand(c) ==
  /\ hk[c].pc = "signExpand"
  /\ hk' = [hk EXCEPT ![c] = AfterSignExpand(hk[c])]
  /\ UNCHANGED <<ecVars, hkMode, demoVars, libVars, pairVars>>

HkNext ==
  \/ \E c \in Callers : HkdfCall(c)
  \/ \E c \in Callers : HkdfImportExtractKey(c)
  \/ \E c \in Callers : HkdfSignExtract(c)
  \/ \E c \in Callers : HkdfImportExpandKey(c)
  \/ \E c \in Callers : HkdfSignExpand(c)

SpecHkdf == HkInit /\ [][HkNext]_vars

----------------------------------------------------------------------------
(* jose: SignJWT(...).setProtectedHeader({ alg: 'HS256' }).sign(key) and     *)
(* jwtVerify(jwt, key)                                                       *)

SignatureValid == "Signature Valid"

SignatureInvalid == "Signature Invalid"

\* JSON.parse(state.jwtPayload)
JsonParse(text) == IF text.json = "invalid" THEN Fail("SyntaxError") ELSE Ok(text)

\* jose's isObject: arrays, null, numbers and strings are not claims sets
IsObject(value) == value.json = "object"

\* the bytes of a claim of the encoded payload
ClaimBytes(v) ==
  IF v = Absent THEN <<0>>
  ELSE IF v = NotANumber THEN <<1>>
  ELSE <<2, (v \div 65536) % 256, (v \div 256) % 256, v % 256>>

\* base64url(header) + '.' + base64url(payload), the bytes that are signed
SigningInput(alg, payload) ==
  TextEncode(alg) \o <<46>> \o ClaimBytes(payload.iat) \o ClaimBytes(payload.exp)

HS256 == <<"H", "S", "2", "5", "6">>

\* the compact JWS header.payload.signature, kept as its three parts
CompactJWS(alg, payload, signature) == <<alg, payload, signature>>

\* new SignJWT(payload).setProtectedHeader({ alg: 'HS256' }).sign(key)
SignJWT(payload, key) ==
  IF ~IsObject(payload) THEN Fail("TypeError")
  ELSE Ok(CompactJWS(HS256, payload, Hmac(key, SigningInput(HS256, payload))))

\* the signature of the token is the HMAC of its signing input under key
SignatureMatches(jwt, key) ==
  jwt[3] = Hmac(key, SigningInput(jwt[1], jwt[2]))

\* jwtVerify(jwt, key) at clock t: the signature first, then the claims set
jwtVerify(jwt, key, t) ==
  IF jwt = <<>> THEN Fail("JWSInvalid")
  ELSE IF jwt[1] # HS256 THEN Fail("JOSENotSupported")
  ELSE IF ~SignatureMatches(jwt, key) THEN Fail("JWSSignatureVerificationFailed")
  ELSE IF ~IsObject(jwt[2]) THEN Fail("JWTInvalid")
  ELSE IF jwt[2].exp = NotANumber \/ jwt[2].iat = NotANumber
       THEN Fail("JWTClaimValidationFailed")
  ELSE IF jwt[2].exp # Absent /\ jwt[2].exp <= t THEN Fail("JWTExpired")
  ELSE Ok(jwt[2])

----------------------------------------------------------------------------
(* The Demo component: one action per handler.  The handlers that only call  *)
(* lib/crypto.ts finish in the same task; those that await crypto.subtle     *)
(* read the state when they are called and store their result when the       *)
(* platform answers.                                                         *)

MaxPending == 1

MaxTicks == 1

ClockStep == 3600

MaxDemoDraw == 2

\* what crypto.getRandomValues may fill the 32 bytes with
DemoDraws == {NumberToBytesBE(k, CoordLen) : k \in 0..MaxDemoDraw}

DemoSalts == {<<>>, <<"s">>}

DemoInfos == {DefaultInfo, <<>>}

\* texts typed into the payload field
DemoPayloads ==
  {PayloadText("invalid", Absent, Absent),
   PayloadText("array", Absent, Absent),
   PayloadText("object", Absent, NotANumber)}

NoPoint == [x |-> <<>>, y |-> <<>>]

CanStart == Cardinality(pending) < MaxPending

DemoResetAll ==
  /\ state' = InitialState(now)
  /\ UNCHANGED <<pending, now>>

\* generateKeys that stores the HSM's pair before it generates the validator's
DemoGenerateKeysPartial(r1, r2) ==
  LET hsmKeyPair == generateECKeyPair(r1)
      validatorKeyPair == generateECKeyPair(r2)
      first == IF hsmKeyPair.ok
               THEN [state EXCEPT !.hsmPrivateKey = hsmKeyPair.val.privateKey,
                                  !.hsmPublicKey = hsmKeyPair.val.publicKey]
               ELSE state
  IN  /\ state' = IF hsmKeyPair.ok /\ validatorKeyPair.ok
                  THEN [first EXCEPT !.validatorPrivateKey = validatorKeyPair.val.privateKey,
                                     !.validatorPublicKey = validatorKeyPair.val.publicKey,
                                     !.hsmKeyRevealed = FALSE]
                  ELSE first
      /\ UNCHANGED <<pending, now>>

DemoGenerateKeys(r1, r2) ==
  LET hsmKeyPair == generateECKeyPair(r1)
      validatorKeyPair == generateECKeyPair(r2)
  IN  /\ state' = IF hsmKeyPair.ok /\ validatorKeyPair.ok
                  THEN [state EXCEPT !.hsmPrivateKey = hsmKeyPair.val.privateKey,
                                     !.hsmPublicKey = hsmKeyPair.val.publicKey,
                                     !.validatorPrivateKey = validatorKeyPair.val.privateKey,
                                     !.validatorPublicKey = validatorKeyPair.val.publicKey,
                                     !.hsmKeyRevealed = FALSE]
                  ELSE state
      /\ UNCHANGED <<pending, now>>

\* the button is disabled without an HSM key
DemoToggleHSMKeyVisibility ==
  /\ state.hsmPrivateKey # <<>>
  /\ state' = [state EXCEPT !.hsmKeyRevealed = ~state.hsmKeyRevealed]
  /\ UNCHANGED <<pending, now>>

\* the state update that keeps [db]G of the previous blind
GenerateBlindUpdateKeepsDbG(prev, blind, t) ==
  [prev EXCEPT !.blind = blind,
               !.blindedValidatorPublicKey = NoPoint,
               !.hsmEcdhResult = NoPoint,
               !.hkdfPrk = <<>>,
               !.hmacKey = <<>>,
               !.jwtPayload = DefaultPayload(t),
               !.jwt = <<>>,
               !.validatorEcdhResult = NoPoint,
               !.validatorHmacKey = <<>>,
               !.validationResult = ""]

\* setState(prev => ({ ...prev, blind, ... })) of generateBlind at the time t
GenerateBlindUpdate(prev, blind, t) ==
  [prev EXCEPT !.blind = blind,
               !.blindedValidatorPublicKey = NoPoint,
               !.hsmEcdhResult = NoPoint,
               !.hkdfPrk = <<>>,
               !.hmacKey = <<>>,
               !.jwtPayload = DefaultPayload(t),
               !.jwt = <<>>,
               !.dbPublicKey = NoPoint,
               !.validatorEcdhResult = NoPoint,
               !.validatorHmacKey = <<>>,
               !.validationResult = ""]

\* the button is disabled without a validator public key
DemoGenerateBlind(r) ==
  LET blind == generateBlind(r)
      cleared == GenerateBlindUpdate(state, blind, now)
      blindedKey == scalarMultiplication(blind, state.validatorPublicKey)
  IN  /\ state.validatorPublicKey.x # <<>>
      /\ state' = IF state.validatorPublicKey.x # <<>> /\ blindedKey.ok
                  THEN [cleared EXCEPT !.blindedValidatorPublicKey = blindedKey.val]
                  ELSE cleared
      /\ UNCHANGED <<pending, now>>

DemoPerformHSMECDH ==
  LET result == performECDH(state.hsmPrivateKey, state.blindedValidatorPublicKey)
  IN  /\ state' = IF state.hsmPrivateKey = <<>> \/ state.blindedValidatorPublicKey.x = <<>>
                  THEN state
                  ELSE IF result.ok THEN [state EXCEPT !.hsmEcdhResult = result.val]
                  ELSE state
      /\ UNCHANGED <<pending, now>>

\* the button is rendered only with a blind and an HSM key
DemoGenerateDbG ==
  LET dbPoint == calculateDbG(state.hsmPrivateKey, state.blind)
  IN  /\ state.blind # <<>> /\ state.hsmPrivateKey # <<>>
      /\ state' = IF dbPoint.ok THEN [state EXCEPT !.dbPublicKey = dbPoint.val] ELSE state
      /\ UNCHANGED <<pending, now>>

\* the salt edit that discards the token as well
DemoUpdateHkdfSaltClearsJwt(salt) ==
  /\ state' = [state EXCEPT !.hkdfSalt = salt, !.hkdfPrk = <<>>, !.hmacKey = <<>>,
                            !.jwt = <<>>,
                            !.validatorHmacKey = <<>>, !.validationResult = ""]
  /\ UNCHANGED <<pending, now>>

DemoUpdateHkdfSalt(salt) ==
  /\ state' = [state EXCEPT !.hkdfSalt = salt, !.hkdfPrk = <<>>, !.hmacKey = <<>>,
                            !.validatorHmacKey = <<>>, !.validationResult = ""]
  /\ UNCHANGED <<pending, now>>

DemoUpdateHkdfInfo(info) ==
  /\ state' = [state EXCEPT !.hkdfInfo = info, !.hkdfPrk = <<>>, !.hmacKey = <<>>,
                            !.validatorHmacKey = <<>>, !.validationResult = ""]
  /\ UNCHANGED <<pending, now>>

DemoUpdateJwtPayload(payload) ==
  /\ state' = [state EXCEPT !.jwtPayload = payload, !.jwt = <<>>]
  /\ UNCHANGED <<pending, now>>

\* a handler waiting for crypto.subtle, with the values its setState will store
Completion(kind, point, prk, key, jwt) ==
  [kind |-> kind, point |-> point, prk |-> prk, key |-> key, jwt |-> jwt]

\* deriveHMACKey without its test of hsmEcdhResult.x
DemoDeriveHMACKeyUnguarded ==
  LET ikm == hkdfHexToArrayBuffer(state.hsmEcdhResult.x)
      result == hkdfWithSteps(ikm, state.hkdfSalt, state.hkdfInfo, 32)
  IN  /\ CanStart
      /\ pending' = pending \cup
                      {Completion("deriveHMACKey", NoPoint, result.val.prkHex, result.val.okmHex, <<>>)}
      /\ UNCHANGED <<state, now>>

DemoDeriveHMACKey ==
  LET ikm == hkdfHexToArrayBuffer(state.hsmEcdhResult.x)
      result == hkdfWithSteps(ikm, state.hkdfSalt, state.hkdfInfo, 32)
  IN  /\ CanStart
      /\ pending' = IF state.hsmEcdhResult.x = <<>> THEN pending
                    ELSE pending \cup
                           {Completion("deriveHMACKey", NoPoint, result.val.prkHex, result.val.okmHex, <<>>)}
      /\ UNCHANGED <<state, now>>

DemoDeriveHMACKeyDone(c) ==
  /\ c.kind = "deriveHMACKey"
  /\ state' = [state EXCEPT !.hkdfPrk = c.prk, !.hmacKey = c.key]
  /\ pending' = pending \ {c}
  /\ UNCHANGED now

\* line 486: the validator's input keying material
ValidatorIkmFromY(result) == hkdfHexToArrayBuffer(result.y)

ValidatorIkm(result) == hkdfHexToArrayBuffer(result.x)

\* the button is disabled without [db]G or without the validator's private key
DemoPerformValidatorECDH ==
  LET result == performECDH(state.validatorPrivateKey, state.dbPublicKey)
      derivedKey == hkdf(ValidatorIkm(result.val), state.hkdfSalt, state.hkdfInfo, 32)
      hmacKey == hkdfArrayBufferToHex(derivedKey.val)
  IN  /\ CanStart
      /\ state.dbPublicKey.x # <<>> /\ state.validatorPrivateKey # <<>>
      /\ pending' = IF ~result.ok THEN pending
                    ELSE pending \cup
                           {Completion("performValidatorECDH", result.val, <<>>, hmacKey, <<>>)}
      /\ UNCHANGED <<state, now>>

DemoPerformValidatorECDHDone(c) ==
  /\ c.kind = "performValidatorECDH"
  /\ state' = [state EXCEPT !.validatorEcdhResult = c.point, !.validatorHmacKey = c.key]
  /\ pending' = pending \ {c}
  /\ UNCHANGED now

DemoSignJWT ==
  LET payload == JsonParse(state.jwtPayload)
      keyBytes == hkdfHexToArrayBuffer(state.hmacKey)
      jwt == SignJWT(payload.val, keyBytes)
  IN  /\ CanStart
      /\ pending' = IF state.hmacKey = <<>> THEN pending
                    ELSE IF ~payload.ok THEN pending
                    ELSE IF ~jwt.ok THEN pending
                    ELSE pending \cup {Completion("signJWT", NoPoint, <<>>, <<>>, jwt.val)}
      /\ UNCHANGED <<state, now>>

DemoSignJWTDone(c) ==
  /\ c.kind = "signJWT"
  /\ state' = [state EXCEPT !.jwt = c.jwt]
  /\ pending' = pending \ {c}
  /\ UNCHANGED now

\* the button is disabled without the validator's key or without a token
DemoValidateJWS ==
  LET keyBytes == hkdfHexToArrayBuffer(state.validatorHmacKey)
  IN  /\ CanStart
      /\ state.validatorHmacKey # <<>> /\ state.jwt # <<>>
      /\ pending' = pending \cup
                      {Completion("validateJWS", NoPoint, <<>>, keyBytes, state.jwt)}
      /\ UNCHANGED <<state, now>>

\* jose reads the clock when the signature has been checked
DemoValidateJWSDone(c) ==
  /\ c.kind = "validateJWS"
  /\ state' = [state EXCEPT !.validationResult =
                   IF jwtVerify(c.jwt, c.key, now).ok THEN SignatureValid
                   ELSE SignatureInvalid]
  /\ pending' = pending \ {c}
  /\ UNCHANGED now

\* the platform answers one of the waiting handlers
DemoDone(c) ==
  \/ DemoDeriveHMACKeyDone(c)
  \/ DemoPerformValidatorECDHDone(c)
  \/ DemoSignJWTDone(c)
  \/ DemoValidateJWSDone(c)

Tick ==
  /\ now < MaxTicks * ClockStep
  /\ now' = now + ClockStep
  /\ UNCHANGED <<state, pending>>

----------------------------------------------------------------------------
(* A protocol run: the six steps in order, each when the one before has      *)
(* stored its result, then signing and validation                            *)

RunInit ==
  /\ ec = EcIdle
  /\ hk = HkIdle
  /\ hkMode = "off"
  /\ state = InitialState(0)
  /\ pending = {}
  /\ now = 0
  /\ run = 0
  /\ clicks = 0
  /\ lib = LibIdle
  /\ runs = RunsIdle

Step(k) == run = k /\ pending = {} /\ run' = k + 1 /\ UNCHANGED <<ecVars, hkVars, libVars, pairVars, clicks>>

\* an event that is no step of the run
Stay == UNCHANGED <<run, ecVars, hkVars, libVars, pairVars, clicks>>

RunUpdateHkdfSalt == run = 0 /\ Stay /\ \E salt \in DemoSalts : DemoUpdateHkdfSalt(salt)

RunUpdateHkdfInfo == run = 0 /\ Stay /\ \E info \in DemoInfos : DemoUpdateHkdfInfo(info)

RunGenerateKeys == Step(0) /\ \E r1, r2 \in DemoDraws : DemoGenerateKeys(r1, r2)

RunGenerateBlind == Step(1) /\ \E r \in DemoDraws : DemoGenerateBlind(r)

RunGenerateDbG == Step(2) /\ DemoGenerateDbG

RunPerformHSMECDH == Step(3) /\ DemoPerformHSMECDH

RunDeriveHMACKey == Step(4) /\ DemoDeriveHMACKey

RunPerformValidatorECDH == Step(5) /\ DemoPerformValidatorECDH

RunUpdateJwtPayload ==
  run = 6 /\ Stay /\ \E payload \in DemoPayloads : DemoUpdateJwtPayload(payload)

RunSignJWT == Step(6) /\ DemoSignJWT

\* the validator is given another salt after the token has been signed
RunChangeSalt ==
  /\ run = 7 /\ pending = {} /\ Stay
  /\ \E salt \in DemoSalts : salt # state.hkdfSalt /\ DemoUpdateHkdfSalt(salt)

RunRepeatValidatorECDH ==
  /\ run = 7 /\ pending = {} /\ Stay
  /\ state.validatorHmacKey = <<>>
  /\ DemoPerformValidatorECDH

RunValidateJWS == Step(7) /\ DemoValidateJWS

RunDone == Stay /\ \E c \in pending : DemoDone(c)

RunTick == Stay /\ Tick

RunNext ==
  \/ RunUpdateHkdfSalt
  \/ RunUpdateHkdfInfo
  \/ RunGenerateKeys
  \/ RunGenerateBlind
  \/ RunGenerateDbG
  \/ RunPerformHSMECDH
  \/ RunDeriveHMACKey
  \/ RunPerformValidatorECDH
  \/ RunUpdateJwtPayload
  \/ RunSignJWT
  \/ RunChangeSalt
  \/ RunRepeatValidatorECDH
  \/ RunValidateJWS
  \/ RunDone
  \/ RunTick

SpecRun == RunInit /\ [][RunNext]_vars

----------------------------------------------------------------------------
(* The Demo used freely: the steps of the protocol in their order, and up to *)
(* MaxClicks further events of the user at any point between them, whatever  *)
(* the buttons and fields allow                                              *)

MaxClicks == 1

DemoInit == RunInit

\* an event of the user that is no step of the run
Click ==
  /\ clicks < MaxClicks
  /\ clicks' = clicks + 1
  /\ UNCHANGED <<run, ecVars, hkVars, libVars, pairVars>>

\* a button pressed as step k of the run, or at any other moment
Press(k) == Step(k) \/ Click

ClickResetAll == Click /\ DemoResetAll

ClickGenerateKeys == Press(0) /\ \E r1, r2 \in DemoDraws : DemoGenerateKeys(r1, r2)

ClickToggleHSMKeyVisibility == Click /\ DemoToggleHSMKeyVisibility

ClickGenerateBlind == Press(1) /\ \E r \in DemoDraws : DemoGenerateBlind(r)

ClickGenerateDbG == Press(2) /\ DemoGenerateDbG

ClickPerformHSMECDH == Press(3) /\ DemoPerformHSMECDH

ClickDeriveHMACKey == Press(4) /\ DemoDeriveHMACKey

ClickPerformValidatorECDH == Press(5) /\ DemoPerformValidatorECDH

ClickSignJWT == Press(6) /\ DemoSignJWT

ClickValidateJWS == Press(7) /\ DemoValidateJWS

ClickUpdateHkdfSalt == Click /\ \E salt \in DemoSalts : DemoUpdateHkdfSalt(salt)

ClickUpdateHkdfInfo == Click /\ \E info \in DemoInfos : DemoUpdateHkdfInfo(info)

ClickUpdateJwtPayload == Click /\ \E payload \in DemoPayloads : DemoUpdateJwtPayload(payload)

DemoNext ==
  \/ ClickResetAll
  \/ ClickGenerateKeys
  \/ ClickToggleHSMKeyVisibility
  \/ ClickGenerateBlind
  \/ ClickGenerateDbG
  \/ ClickPerformHSMECDH
  \/ ClickDeriveHMACKey
  \/ ClickPerformValidatorECDH
  \/ ClickSignJWT
  \/ ClickValidateJWS
  \/ ClickUpdateHkdfSalt
  \/ ClickUpdateHkdfInfo
  \/ ClickUpdateJwtPayload
  \/ RunDone
  \/ RunTick

SpecDemo == DemoInit /\ [][DemoNext]_vars

----------------------------------------------------------------------------
(* A caller of one function of the library: the call, and for some functions *)
(* a second call that is given the result of the first                       *)

MaxLibScalar == 8

MaxBytesLen == 2

\* the wire form of a scalar or coordinate of value k
ScalarHex(k) == arrayBufferToHex(NumberToBytesBE(k, CoordLen))

\* scalars in wire form, 0 and values from n on included, and strings that
\* are not in wire form: '', '0x', '0x3', '0xzz'
LibScalars ==
  {ScalarHex(k) : k \in 0..MaxLibScalar} \cup
  {<<>>, <<"0", "x">>, <<"0", "x", "3">>, <<"0", "x", "z", "z">>}

\* the affine points of the curve
CurvePoints ==
  {ECPoint(ScalarHex(px), ScalarHex(py)) :
     <<px, py>> \in {q \in (0..(FieldP - 1)) \X (0..(FieldP - 1)) : OnCurve(q[1], q[2])}}

\* a coordinate string that is not 32 bytes in wire form
Malform(c, how) ==
  CASE how = "63 digits" -> <<"0", "x">> \o SubSeq(c, 4, Len(c))
    [] how = "66 digits" -> c \o <<"f", "f">>
    [] how = "62 digits" -> SubSeq(c, 1, Len(c) - 2)
    [] how = "not hex"   -> SubSeq(c, 1, Len(c) - 2) \o <<"z", "z">>
    [] how = "empty"     -> <<>>

Malformations == {"63 digits", "66 digits", "62 digits", "not hex", "empty"}

\* points in wire form, on the curve or not, coordinates up to p included,
\* and points of the curve with one coordinate malformed
LibPoints ==
  {ECPoint(ScalarHex(px), ScalarHex(py)) : px \in 0..FieldP, py \in 0..FieldP} \cup
  {ECPoint(Malform(P.x, how), P.y) : P \in CurvePoints, how \in Malformations} \cup
  {ECPoint(P.x, Malform(P.y, how)) : P \in CurvePoints, how \in Malformations}

\* what crypto.subtle.exportKey('raw', ...) may hand to extractPublicKeyCoordinates
LibRawKeys ==
  LET body == NumberToBytesBE(Gx, CoordLen) \o NumberToBytesBE(Gy, CoordLen)
  IN  {<<4>> \o body, <<>>, <<4>>, body, <<2>> \o body, <<3>> \o NumberToBytesBE(Gx, CoordLen),
       <<4>> \o body \o <<0>>, <<4>> \o SubSeq(body, 2, Len(body)),
       <<4>> \o NumberToBytesBE(8, CoordLen) \o NumberToBytesBE(5, CoordLen)}

ByteSamples == {0, 1, 15, 16, 160, 255}

\* byte strings for the hex codec
LibBytes ==
  UNION {[1..len -> ByteSamples] : len \in 0..MaxBytesLen} \cup RandomDraws

LibCall(fn, args, out) ==
  /\ lib.fn = "none"
  /\ lib' = [fn |-> fn, args |-> args, out |-> out, next |-> None]
  /\ UNCHANGED <<ecVars, hkVars, demoVars, pairVars>>

LibThen(fn, out) ==
  /\ lib.fn = fn
  /\ lib.next = None
  /\ lib' = [lib EXCEPT !.next = out]
  /\ UNCHANGED <<ecVars, hkVars, demoVars, pairVars>>

LibInit ==
  /\ ec = EcIdle
  /\ hk = HkIdle
  /\ hkMode = "off"
  /\ DemoOff
  /\ lib = LibIdle
  /\ runs = RunsIdle

LibGeneratePrivateKey ==
  \E r \in RandomDraws : LibCall("generatePrivateKey", <<r>>, Ok(generatePrivateKey(r)))

LibGenerateBlind ==
  \E r \in RandomDraws : LibCall("generateBlind", <<r>>, Ok(generateBlind(r)))

LibGenerateECKeyPair ==
  \E r \in RandomDraws : LibCall("generateECKeyPair", <<r>>, generateECKeyPair(r))

LibPrivateKeyToPublicKey ==
  \E s \in LibScalars : LibCall("privateKeyToPublicKey", <<s>>, privateKeyToPublicKey(s))

LibPerformECDH ==
  \E s \in LibScalars, P \in LibPoints : LibCall("performECDH", <<s, P>>, performECDH(s, P))

LibScalarMultiplication ==
  \E s \in LibScalars, P \in LibPoints :
    LibCall("scalarMultiplication", <<s, P>>, scalarMultiplication(s, P))

LibCalculateDbG ==
  \E d \in LibScalars, b \in LibScalars : LibCall("calculateDbG", <<d, b>>, calculateDbG(d, b))

LibExtractPublicKeyCoordinates ==
  \E raw \in LibRawKeys :
    LibCall("extractPublicKeyCoordinates", <<raw>>, extractPublicKeyCoordinates(raw))

LibCreatePrivateKeyFromHex ==
  \E h \in LibScalars, k \in 1..(CurveN - 1) :
    LibCall("createPrivateKeyFromHex", <<h>>, Ok(createPrivateKeyFromHex(h, k)))

\* a second call with the same argument
LibCreatePrivateKeyFromHexAgain ==
  \E k \in 1..(CurveN - 1) :
    LibThen("createPrivateKeyFromHex", Ok(createPrivateKeyFromHex(lib.args[1], k)))

\* performECDH(1, P) on the point P a call of privateKeyToPublicKey returned
LibPerformECDHByOne ==
  /\ lib.out.ok
  /\ LibThen("privateKeyToPublicKey", performECDH(ScalarHex(1), lib.out.val))

LibArrayBufferToHex ==
  \E b \in LibBytes : LibCall("arrayBufferToHex", <<b>>, Ok(arrayBufferToHex(b)))

LibHexToArrayBuffer == LibThen("arrayBufferToHex", Ok(hexToArrayBuffer(lib.out.val)))

LibHkdfArrayBufferToHex ==
  \E b \in LibBytes : LibCall("hkdf.arrayBufferToHex", <<b>>, Ok(hkdfArrayBufferToHex(b)))

LibHkdfHexToArrayBuffer ==
  LibThen("hkdf.arrayBufferToHex", Ok(hkdfHexToArrayBuffer(lib.out.val)))

LibNext ==
  \/ LibGeneratePrivateKey
  \/ LibGenerateBlind
  \/ LibGenerateECKeyPair
  \/ LibPrivateKeyToPublicKey
  \/ LibPerformECDH
  \/ LibScalarMultiplication
  \/ LibCalculateDbG
  \/ LibExtractPublicKeyCoordinates
  \/ LibCreatePrivateKeyFromHex
  \/ LibCreatePrivateKeyFromHexAgain
  \/ LibPerformECDHByOne
  \/ LibArrayBufferToHex
  \/ LibHexToArrayBuffer
  \/ LibHkdfArrayBufferToHex
  \/ LibHkdfHexToArrayBuffer

SpecLib == LibInit /\ [][LibNext]_vars

----------------------------------------------------------------------------
(* Two protocol runs on the library at once: each makes its calls in the     *)
(* order of the protocol; a call of a curve helper runs to its return, a     *)
(* call of hkdf / hkdfWithSteps gives way to the other run at every await    *)

MaxPairScalar == 2

PairScalars == {ScalarHex(k) : k \in 1..MaxPairScalar}

\* the other run has not started, or has another key pair and another blind
DistinctFrom(other, d, b, v) ==
  Called(other.d) => other.d.val # d /\ other.b.val # b /\ other.v.val # v

PairInit ==
  /\ ec = EcIdle
  /\ hk = HkIdle
  /\ hkMode = "pair"
  /\ DemoOff
  /\ lib = LibIdle
  /\ runs = RunsIdle

\* the run is given its scalars d, b and v
PairStart(r) ==
  /\ ~Called(runs[r].d)
  /\ \E d, b, v \in PairScalars :
       /\ DistinctFrom(runs[3 - r], d, b, v)
       /\ runs' = [runs EXCEPT ![r].d = Ok(d), ![r].b = Ok(b), ![r].v = Ok(v)]
  /\ UNCHANGED <<ecVars, hkVars, demoVars, libVars>>

\* V = await privateKeyToPublicKey(v)
PairPublicKey(r) ==
  /\ Called(runs[r].v) /\ ~Called(runs[r].V)
  /\ runs' = [runs EXCEPT ![r].V = privateKeyToPublicKey(runs[r].v.val)]
  /\ UNCHANGED <<ecVars, hkVars, demoVars, libVars>>

\* B = await performECDH(b, V)
PairBlind(r) ==
  /\ runs[r].V.ok /\ ~Called(runs[r].B)
  /\ runs' = [runs EXCEPT ![r].B = performECDH(runs[r].b.val, runs[r].V.val)]
  /\ UNCHANGED <<ecVars, hkVars, demoVars, libVars>>

\* S_p = await performECDH(d, B)
PairProducerECDH(r) ==
  /\ runs[r].B.ok /\ ~Called(runs[r].Sp)
  /\ runs' = [runs EXCEPT ![r].Sp = performECDH(runs[r].d.val, runs[r].B.val)]
  /\ UNCHANGED <<ecVars, hkVars, demoVars, libVars>>

\* D = await calculateDbG(d, b)
PairDbG(r) ==
  /\ Called(runs[r].Sp) /\ ~Called(runs[r].D)
  /\ runs' = [runs EXCEPT ![r].D = calculateDbG(runs[r].d.val, runs[r].b.val)]
  /\ UNCHANGED <<ecVars, hkVars, demoVars, libVars>>

\* S_v = await performECDH(v, D)
PairValidatorECDH(r) ==
  /\ runs[r].D.ok /\ ~Called(runs[r].Sv)
  /\ runs' = [runs EXCEPT ![r].Sv = performECDH(runs[r].v.val, runs[r].D.val)]
  /\ UNCHANGED <<ecVars, hkVars, demoVars, libVars>>

\* hkdf(hexToArrayBuffer(S_v.x), '', info, 32) or hkdfWithSteps(...) up to its
\* first await
PairHkdf(r) ==
  /\ runs[r].Sv.ok /\ hk[r].pc = "idle"
  /\ \E fn \in {"hkdf", "hkdfWithSteps"} :
       hk' = [hk EXCEPT ![r] = HkdfEnter(fn, hkdfHexToArrayBuffer(runs[r].Sv.val.x),
                                        <<>>, DefaultInfo, HashLen)]
  /\ UNCHANGED <<ecVars, hkMode, demoVars, libVars, pairVars>>

PairNext ==
  \/ \E r \in 1..2 : PairStart(r)
  \/ \E r \in 1..2 : PairPublicKey(r)
  \/ \E r \in 1..2 : PairBlind(r)
  \/ \E r \in 1..2 : PairProducerECDH(r)
  \/ \E r \in 1..2 : PairDbG(r)
  \/ \E r \in 1..2 : PairValidatorECDH(r)
  \/ \E r \in 1..2 : PairHkdf(r)
  \/ \E r \in 1..2 : HkdfImportExtractKey(r)
  \/ \E r \in 1..2 : HkdfSignExtract(r)
  \/ \E r \in 1..2 : HkdfImportExpandKey(r)
  \/ \E r \in 1..2 : HkdfSignExpand(r)

SpecPair == PairInit /\ [][PairNext]_vars

----------------------------------------------------------------------------
(* Properties of the curve helpers                                           *)

\* the integer a scalar string denotes
ScalarValue(hex) == BigIntOfHex(Replace0x(hex))

IsZeroScalar(r) == r.ok /\ ScalarValue(r.val) = 0

\* C1: the producer's shared secret performECDH(d, scalarMultiplication(b,
\* privateKeyToPublicKey(v))) and the validator's shared secret
\* performECDH(v, calculateDbG(d, b)) are the same point, in both coordinates
C1_SharedSecretsMatch ==
  (Called(ec.Sp) /\ Called(ec.Sv)) =>
     /\ ec.Sp.ok /\ ec.Sv.ok
     /\ ec.Sp.val.x = ec.Sv.val.x
     /\ ec.Sp.val.y = ec.Sv.val.y

\* both secrets computed from three different scalars of [1, n-1]
C1_Witness ==
  /\ ec.Sp.ok /\ ec.Sv.ok
  /\ ValidScalar(ScalarValue(ec.d.val))
  /\ ValidScalar(ScalarValue(ec.b.val))
  /\ ValidScalar(ScalarValue(ec.v.val))
  /\ ScalarValue(ec.d.val) # ScalarValue(ec.b.val)
  /\ ScalarValue(ec.b.val) # ScalarValue(ec.v.val)
  /\ ScalarValue(ec.d.val) # ScalarValue(ec.v.val)

\* C9: every scalar returned by generatePrivateKey, generateBlind and
\* generateECKeyPair is nonzero and less than the group order n
C9_ScalarsInRange ==
  /\ ec.d.ok => ValidScalar(ScalarValue(ec.d.val))
  /\ ec.b.ok => ValidScalar(ScalarValue(ec.b.val))
  /\ ec.v.ok => ValidScalar(ScalarValue(ec.v.val))
  /\ ec.pair.ok => ValidScalar(ScalarValue(ec.pair.val.privateKey))

\* C10: privateKeyToPublicKey, scalarMultiplication, performECDH and
\* calculateDbG fail on a zero scalar, none of them returns a point for it
C10_ZeroScalarFails ==
  /\ (IsZeroScalar(ec.v) /\ Called(ec.V)) => ~ec.V.ok
  /\ (IsZeroScalar(ec.b) /\ Called(ec.B)) => ~ec.B.ok
  /\ (IsZeroScalar(ec.d) /\ Called(ec.Sp)) => ~ec.Sp.ok
  /\ ((IsZeroScalar(ec.d) \/ IsZeroScalar(ec.b)) /\ Called(ec.D)) => ~ec.D.ok
  /\ (IsZeroScalar(ec.v) /\ Called(ec.Sv)) => ~ec.Sv.ok

\* privateKeyToPublicKey(0) and performECDH(0, D) were both called
C10_Witness ==
  /\ IsZeroScalar(ec.v)
  /\ Called(ec.V) /\ ~ec.V.ok
  /\ ec.D.ok
  /\ Called(ec.Sv) /\ ~ec.Sv.ok

----------------------------------------------------------------------------
(* Properties of hkdf and hkdfWithSteps                                      *)

Done(c) == hk[c].pc = "done"

\* the keying material a finished call returns
OkmOf(c) == IF hk[c].fn = "hkdf" THEN hk[c].result.val ELSE hk[c].result.val.okm

SameArguments(c1, c2) ==
  /\ hk[c1].ikm = hk[c2].ikm
  /\ hk[c1].salt = hk[c2].salt
  /\ hk[c1].info = hk[c2].info
  /\ hk[c1].length = hk[c2].length

\* C3: a call of hkdf or hkdfWithSteps that asks for more than 255 * 32 bytes
\* fails and returns no keying material, its block counter never passes 255
C3_LengthBoundEnforced ==
  \A c \in 1..2 :
    hk[c].length > 255 * HashLen =>
      /\ Done(c) => ~hk[c].result.ok
      /\ hk[c].i <= 256

\* C4: for a length of 0..255*32 the keying material is the first `length`
\* bytes of T(1) || T(2) || ... || T(ceil(length/32)) with T(0) empty and
\* T(i) = HMAC(prk, T(i-1) || info || byte(i)), and it is `length` bytes long
C4_ExpandRecurrence ==
  \A c \in 1..2 :
    (Done(c) /\ hk[c].length <= 255 * HashLen) =>
      LET call == hk[c]
          blocks == CHOOSE m \in 0..255 :
                      HashLen * m >= call.length /\ HashLen * (m - 1) < call.length
      IN  /\ Len(OkmOf(c)) = call.length
          /\ Len(call.okm) = HashLen * blocks
          /\ \A k \in 1..call.length : OkmOf(c)[k] = call.okm[k]
          /\ \A i \in 1..blocks :
               OkmBlock(call.okm, i) =
                 Hmac(call.prk,
                      OkmBlock(call.okm, i - 1) \o TextEncode(call.info) \o <<i>>)

\* a call for two blocks, the second one cut to its first byte, has returned
C4_Witness == Done(1) /\ hk[1].fn = "hkdf" /\ hk[1].length = HashLen + 1

\* C5: two calls with identical (ikm, salt, info, length) yield identical PRK
\* and identical OKM, however their steps and those of other calls interleave
C5_Deterministic ==
  (Done(1) /\ Done(2) /\ SameArguments(1, 2)) =>
     /\ hk[1].prk = hk[2].prk
     /\ OkmOf(1) = OkmOf(2)

\* two concurrent calls with identical arguments and two blocks have returned
C5_Witness ==
  /\ Done(1) /\ Done(2) /\ SameArguments(1, 2)
  /\ hk[1].length = HashLen + 1

\* C6: the extract key is the salt, or 32 zero bytes for an empty salt, so that
\* PRK = HMAC(32 zero bytes, ikm) then; a call with salt '' and one with a salt
\* of 32 NUL characters return the same PRK and OKM
C6_EmptySaltIsZeroKey ==
  /\ \A c \in 1..2 :
       /\ hk[c].pc \in {"signExtract", "importExpandKey", "signExpand", "done"} =>
            hk[c].extractKey = IF hk[c].salt = <<>> THEN [j \in 1..32 |-> 0]
                               ELSE TextEncode(hk[c].salt)
       /\ (hk[c].pc \in {"importExpandKey", "signExpand", "done"} /\ hk[c].salt = <<>>) =>
            hk[c].prk = Hmac([j \in 1..32 |-> 0], hk[c].ikm)
  /\ ( /\ Done(1) /\ Done(2)
       /\ hk[1].salt = <<>> /\ hk[2].salt = NulSalt
       /\ hk[1].ikm = hk[2].ikm /\ hk[1].info = hk[2].info
       /\ hk[1].length = hk[2].length )
     => (hk[1].prk = hk[2].prk /\ OkmOf(1) = OkmOf(2))

\* a call with salt '' and a call with 32 NUL characters have both returned
C6_Witness ==
  /\ Done(1) /\ Done(2)
  /\ hk[1].salt = <<>> /\ hk[2].salt = NulSalt
  /\ hk[1].ikm = hk[2].ikm /\ hk[1].length = hk[2].length
  /\ hk[1].length = HashLen + 1

----------------------------------------------------------------------------
(* Properties of the Demo component                                          *)

\* C2: when the six steps generateKeys, generateBlind, generateDbG,
\* performHSMECDH, deriveHMACKey, performValidatorECDH have run in order
\* under one salt and one info, hmacKey equals validatorHmacKey, and both are
\* set when the producer's shared secret was computed
C2_KeysAgree ==
  (run = 6 /\ pending = {}) =>
     /\ state.hmacKey = state.validatorHmacKey
     /\ state.hsmEcdhResult.x # <<>> => state.hmacKey # <<>>

\* a completed run under a salt that is not the default
C2_Witness ==
  /\ run = 6 /\ pending = {}
  /\ state.hmacKey # <<>>
  /\ state.validatorHmacKey = state.hmacKey
  /\ state.hkdfSalt # <<>>

\* C7: validateJWS reports 'Signature Valid' exactly for the tokens whose
\* signature is the HMAC of their signing input under the key it is given,
\* and 'Signature Invalid' for the others
C7_SignVerifyRoundTrip ==
  [][\A c \in pending :
       DemoValidateJWSDone(c) =>
         (state'.validationResult = SignatureValid <=> SignatureMatches(c.jwt, c.key))]_vars

\* jwtVerify rejects the token for its structure, not for its signature
Malformed(jwt, key, t) ==
  /\ ~jwtVerify(jwt, key, t).ok
  /\ jwtVerify(jwt, key, t).val \in {"JWSInvalid", "JWTInvalid", "JWTClaimValidationFailed"}

\* C8: validateJWS stores 'Signature Invalid' when the signature does not
\* match, and does not store 'Signature Invalid' for a token that is rejected
\* as malformed
C8_MalformedReportedDistinctly ==
  [][\A c \in pending :
       DemoValidateJWSDone(c) =>
         /\ ~SignatureMatches(c.jwt, c.key) => state'.validationResult = SignatureInvalid
         /\ Malformed(c.jwt, c.key, now) => state'.validationResult # SignatureInvalid]_vars

\* the step of the run that is taken calls a curve helper which fails
StepFails ==
  \/ /\ run = 2 /\ run' = 3
     /\ ~calculateDbG(state.hsmPrivateKey, state.blind).ok
  \/ /\ run = 3 /\ run' = 4
     /\ state.hsmPrivateKey # <<>> /\ state.blindedValidatorPublicKey.x # <<>>
     /\ ~performECDH(state.hsmPrivateKey, state.blindedValidatorPublicKey).ok
  \/ /\ run = 5 /\ run' = 6
     /\ ~performECDH(state.validatorPrivateKey, state.dbPublicKey).ok

\* C13: when the curve helper called by a step of the run fails, the step
\* does not pass unnoticed: the state the caller sees after the step differs
\* from the state before it
C13_FailureObservable == [][StepFails => state' # state]_vars

\* a private key and its public point are both empty, or the point is the
\* private key times G
KeyPairConsistent(privateKey, publicKey) ==
  IF privateKey = <<>> THEN publicKey = NoPoint
  ELSE privateKeyToPublicKey(privateKey) = Ok(publicKey)

\* C14: in every state of the Demo hsmPublicKey is hsmPrivateKey * G and
\* validatorPublicKey is validatorPrivateKey * G, or the private key and its
\* point are both empty; the pairs are those generateECKeyPair returned
C14_KeyPairsConsistent ==
  /\ KeyPairConsistent(state.hsmPrivateKey, state.hsmPublicKey)
  /\ KeyPairConsistent(state.validatorPrivateKey, state.validatorPublicKey)

\* the keys have been generated again in the middle of a run, with two
\* different scalars
C14_Witness ==
  /\ clicks = 1 /\ run >= 3
  /\ state.hsmPrivateKey # <<>>
  /\ state.hsmPrivateKey # state.validatorPrivateKey
  /\ state.hsmEcdhResult.x # <<>>
  /\ performECDH(state.hsmPrivateKey, state.blindedValidatorPublicKey) # Ok(state.hsmEcdhResult)

----------------------------------------------------------------------------
(* Properties of the library functions                                       *)

IsHexDigit(c) == \E j \in 1..16 : HexDigits[j] = c

\* the literal prefix '0x' followed by exactly 64 lowercase hex digits
WireForm(c) ==
  /\ Len(c) = 2 + 2 * CoordLen
  /\ c[1] = "0" /\ c[2] = "x"
  /\ \A i \in 3..Len(c) : IsHexDigit(c[i])

\* a coordinate string that denotes exactly 32 bytes
Is32Bytes(c) ==
  LET clean == Replace0x(c)
  IN  Len(clean) = 2 * CoordLen /\ \A i \in 1..Len(clean) : DigitVal(clean[i]) >= 0

\* a scalar string in wire form whose value is in [1, n-1]
InRange(c) == WireForm(c) /\ ValidScalar(ScalarValue(c))

\* C11: performECDH returns a point only when both coordinates it is given
\* denote exactly 32 bytes, and extractPublicKeyCoordinates only for 65 raw
\* bytes that start with the tag 0x04
C11_MalformedPointRejected ==
  /\ (lib.fn = "performECDH" /\ lib.out.ok) =>
        (Is32Bytes(lib.args[2].x) /\ Is32Bytes(lib.args[2].y))
  /\ (lib.fn = "extractPublicKeyCoordinates" /\ lib.out.ok) =>
        (Len(lib.args[1]) = 2 * CoordLen + 1 /\ lib.args[1][1] = 4)

\* C12: every point returned by privateKeyToPublicKey, scalarMultiplication,
\* performECDH and calculateDbG is an affine point of the curve, and
\* performECDH and scalarMultiplication fail on a point in wire form that is
\* not on the curve
C12_OnlyCurvePoints ==
  /\ (lib.fn \in {"privateKeyToPublicKey", "scalarMultiplication", "performECDH",
                   "calculateDbG"} /\ lib.out.ok) =>
        lib.out.val \in CurvePoints
  /\ ( /\ lib.fn \in {"scalarMultiplication", "performECDH"}
       /\ WireForm(lib.args[2].x) /\ WireForm(lib.args[2].y)
       /\ lib.args[2] \notin CurvePoints )
     => ~lib.out.ok

\* performECDH has been given a scalar of [1, n-1] and a point in wire form,
\* with coordinates below p, that is not on the curve
C12_Witness ==
  /\ lib.fn = "performECDH"
  /\ InRange(lib.args[1])
  /\ WireForm(lib.args[2].x) /\ WireForm(lib.args[2].y)
  /\ ScalarValue(lib.args[2].x) = 3 /\ ScalarValue(lib.args[2].y) = 4
  /\ ~lib.out.ok

\* C15: two calls of createPrivateKeyFromHex with the same h return the same
\* key, and the scalar of the key is h
C15_KeyFromGivenScalar ==
  (lib.fn = "createPrivateKeyFromHex" /\ Called(lib.next)) =>
     /\ lib.out = lib.next
     /\ BigIntOk(Replace0x(lib.args[1])) => lib.out.val.scalar = ScalarValue(lib.args[1])

\* C16: for d, b in [1, n-1] calculateDbG(d, b) is the point
\* privateKeyToPublicKey returns for d*b mod n, and equals calculateDbG(b, d)
C16_DbGIsProductTimesG ==
  (lib.fn = "calculateDbG" /\ InRange(lib.args[1]) /\ InRange(lib.args[2])) =>
     LET d == ScalarValue(lib.args[1])
         b == ScalarValue(lib.args[2])
     IN  /\ lib.out.ok
         /\ lib.out = privateKeyToPublicKey(ScalarHex((d * b) % CurveN))
         /\ lib.out = calculateDbG(lib.args[2], lib.args[1])

\* calculateDbG has returned for two different scalars whose product is
\* reduced modulo n
C16_Witness ==
  /\ lib.fn = "calculateDbG" /\ InRange(lib.args[1]) /\ InRange(lib.args[2])
  /\ lib.args[1] # lib.args[2]
  /\ ScalarValue(lib.args[1]) * ScalarValue(lib.args[2]) > CurveN
  /\ lib.out.ok

\* C17: hexToArrayBuffer applied to arrayBufferToHex(b) returns b, for the
\* codec of lib/crypto and for the codec of lib/hkdf
C17_HexRoundTrip ==
  (lib.fn \in {"arrayBufferToHex", "hkdf.arrayBufferToHex"} /\ Called(lib.next)) =>
     lib.next.val = lib.args[1]

\* the codec of lib/hkdf has taken two bytes, one below 16, there and back
C17_Witness ==
  /\ lib.fn = "hkdf.arrayBufferToHex" /\ Called(lib.next)
  /\ lib.args[1] = <<160, 1>>
  /\ lib.out.val = <<"0", "x", "a", "0", "0", "1">>

\* C18: the scalars returned by generatePrivateKey and generateBlind and the
\* coordinates returned by privateKeyToPublicKey, performECDH and
\* calculateDbG are '0x' followed by exactly 64 lowercase hex digits
C18_WireFormat ==
  /\ lib.fn \in {"generatePrivateKey", "generateBlind"} => WireForm(lib.out.val)
  /\ (lib.fn \in {"privateKeyToPublicKey", "performECDH", "calculateDbG"} /\ lib.out.ok) =>
        (WireForm(lib.out.val.x) /\ WireForm(lib.out.val.y))

\* performECDH has returned a point whose coordinates have 31 leading zero bytes
C18_Witness ==
  /\ lib.fn = "performECDH" /\ lib.out.ok
  /\ SubSeq(lib.out.val.x, 1, 4) = <<"0", "x", "0", "0">>
  /\ ScalarValue(lib.out.val.x) < 256

\* C19: performECDH(1, P) returns P for every point P that
\* privateKeyToPublicKey returns: P encoded as 0x04 || x || y and decoded
\* again is the same point
C19_PointRoundTrip ==
  (lib.fn = "privateKeyToPublicKey" /\ Called(lib.next)) =>
     (lib.next.ok /\ lib.next.val = lib.out.val)

\* the point of a scalar other than 1 has been encoded and decoded
C19_Witness ==
  /\ lib.fn = "privateKeyToPublicKey" /\ Called(lib.next)
  /\ ScalarValue(lib.args[1]) = 5
  /\ lib.next.ok

----------------------------------------------------------------------------
(* Properties of two runs at once                                            *)

\* the keying material of run r is being derived or has been
PrkKnown(r) == hk[r].pc \in {"importExpandKey", "signExpand", "done"}

\* C20: whatever the interleaving of the library calls of two runs with
\* distinct key pairs and blinds, every value a run has obtained is the value
\* the same call returns when the run is alone: the points of
\* privateKeyToPublicKey, performECDH and calculateDbG are those computed from
\* the run's own scalars, the PRK and the result of hkdf / hkdfWithSteps are
\* those of a call on the run's own secret executed with nothing in between
C20_RunsDoNotInteract ==
  \A r \in 1..2 :
    LET me == runs[r]
        V == privateKeyToPublicKey(me.v.val)
        B == performECDH(me.b.val, V.val)
        Sp == performECDH(me.d.val, B.val)
        D == calculateDbG(me.d.val, me.b.val)
        Sv == performECDH(me.v.val, D.val)
        ikm == hkdfHexToArrayBuffer(Sv.val.x)
        alone == hkdfWithSteps(ikm, <<>>, DefaultInfo, HashLen)
    IN  /\ Called(me.V) => me.V = V
        /\ Called(me.B) => me.B = B
        /\ Called(me.Sp) => me.Sp = Sp
        /\ Called(me.D) => me.D = D
        /\ Called(me.Sv) => me.Sv = Sv
        /\ PrkKnown(r) => hk[r].prk = alone.val.prk
        /\ Done(r) => hk[r].result = IF hk[r].fn = "hkdf"
                                     THEN hkdf(ikm, <<>>, DefaultInfo, HashLen)
                                     ELSE alone

\* run 1 has its keying material from hkdf while run 2, on another secret,
\* is between two awaits of hkdfWithSteps
C20_Witness ==
  /\ Done(1) /\ hk[1].fn = "hkdf"
  /\ hk[2].fn = "hkdfWithSteps" /\ hk[2].pc = "signExpand"
  /\ runs[1].Sv.val # runs[2].Sv.val
  /\ hk[1].result.val # hkdf(hk[2].ikm, <<>>, DefaultInfo, HashLen).val

----------------------------------------------------------------------------
(* Properties of the Demo used freely                                        *)

\* C21: in every state of the Demo, whatever steps were taken and repeated,
\* hmacKey and validatorHmacKey are equal when both are set
C21_HmacKeysEqual ==
  (state.hmacKey # <<>> /\ state.validatorHmacKey # <<>>) =>
     state.hmacKey = state.validatorHmacKey

\* HKDF(x, hkdfSalt, hkdfInfo, 32) of the Demo's current salt and info, as hex
CurrentHkdf(x) ==
  hkdfArrayBufferToHex(hkdf(hkdfHexToArrayBuffer(x), state.hkdfSalt, state.hkdfInfo, 32).val)

\* C23: in every state of the Demo, also when a salt or info edit comes while
\* deriveHMACKey or performValidatorECDH waits for its result, a non-empty
\* hmacKey is HKDF(hsmEcdhResult.x, hkdfSalt, hkdfInfo, 32) and a non-empty
\* validatorHmacKey is HKDF(validatorEcdhResult.x, hkdfSalt, hkdfInfo, 32) of
\* the current salt and info
C23_KeysFromCurrentParameters ==
  /\ state.hmacKey # <<>> => state.hmacKey = CurrentHkdf(state.hsmEcdhResult.x)
  /\ state.validatorHmacKey # <<>> =>
       state.validatorHmacKey = CurrentHkdf(state.validatorEcdhResult.x)

\* the point is empty or the result of the call
EmptyOr(point, call) == point = NoPoint \/ call = Ok(point)

\* C25: in every state of the Demo the derived points fit the current inputs:
\* blindedValidatorPublicKey is blind * validatorPublicKey, hsmEcdhResult is
\* hsmPrivateKey * blindedValidatorPublicKey, dbPublicKey is
\* hsmPrivateKey * (blind * G), validatorEcdhResult is
\* validatorPrivateKey * dbPublicKey, each when it is not empty
C25_DerivedPointsConsistent ==
  /\ EmptyOr(state.blindedValidatorPublicKey,
             scalarMultiplication(state.blind, state.validatorPublicKey))
  /\ EmptyOr(state.hsmEcdhResult,
             performECDH(state.hsmPrivateKey, state.blindedValidatorPublicKey))
  /\ EmptyOr(state.dbPublicKey, calculateDbG(state.hsmPrivateKey, state.blind))
  /\ EmptyOr(state.validatorEcdhResult,
             performECDH(state.validatorPrivateKey, state.dbPublicKey))

----------------------------------------------------------------------------
(* hkdfWithSteps against hkdf                                                *)

\* hex is '0x' and two lowercase hex digits for each byte of bytes, in order
HexOf(hex, bytes) ==
  /\ Len(hex) = 2 + 2 * Len(bytes)
  /\ hex[1] = "0" /\ hex[2] = "x"
  /\ \A i \in 3..Len(hex) : IsHexDigit(hex[i])
  /\ \A k \in 1..Len(bytes) :
       16 * DigitVal(hex[2 * k + 1]) + DigitVal(hex[2 * k + 2]) = bytes[k]

\* C22: for every ikm, salt, info and length the okm of hkdfWithSteps is what
\* hkdf returns for the same arguments and the other way round, the prk it
\* returns is the PRK of the extract step, and prkHex and okmHex are the hex
\* forms of the prk and the okm it returns
C22_StepsAgreeWithHkdf ==
  \A c \in 1..2 :
    Done(c) =>
      LET call == hk[c]
          short == call.length <= MaxSmallLen
      IN  IF call.fn = "hkdfWithSteps"
          THEN /\ short => call.result.val.okm =
                             hkdf(call.ikm, call.salt, call.info, call.length).val
               /\ call.result.val.prk = Hmac(ExtractKey(TextEncode(call.salt)), call.ikm)
               /\ HexOf(call.result.val.prkHex, call.result.val.prk)
               /\ HexOf(call.result.val.okmHex, call.result.val.okm)
          ELSE short => call.result.val =
                          hkdfWithSteps(call.ikm, call.salt, call.info, call.length).val.okm

\* hkdfWithSteps has returned one byte of keying material under a salt
C22_Witness ==
  /\ Done(1) /\ hk[1].fn = "hkdfWithSteps"
  /\ hk[1].length = 1 /\ hk[1].salt # <<>>
  /\ Len(hk[1].okm) = HashLen
  /\ Len(hk[1].result.val.okmHex) = 4

----------------------------------------------------------------------------
(* What single handlers of the Demo write                                    *)

\* the fields of the key pairs, the reveal switch and the HKDF parameters
SameKeysAndParameters(s, t) ==
  /\ s.hsmPrivateKey = t.hsmPrivateKey /\ s.hsmPublicKey = t.hsmPublicKey
  /\ s.validatorPrivateKey = t.validatorPrivateKey
  /\ s.validatorPublicKey = t.validatorPublicKey
  /\ s.hsmKeyRevealed = t.hsmKeyRevealed
  /\ s.hkdfSalt = t.hkdfSalt /\ s.hkdfInfo = t.hkdfInfo

\* every field computed from a blind is empty
BlindArtifactsEmpty(s) ==
  /\ s.hsmEcdhResult = NoPoint /\ s.hkdfPrk = <<>> /\ s.hmacKey = <<>>
  /\ s.jwt = <<>> /\ s.dbPublicKey = NoPoint /\ s.validatorEcdhResult = NoPoint
  /\ s.validatorHmacKey = <<>> /\ s.validationResult = ""

\* C24: the state update of generateBlind empties blindedValidatorPublicKey,
\* hsmEcdhResult, hkdfPrk, hmacKey, jwt, dbPublicKey, validatorEcdhResult,
\* validatorHmacKey and validationResult and leaves both key pairs,
\* hsmKeyRevealed, hkdfSalt and hkdfInfo as they were; when the handler has
\* returned, nothing computed from the previous blind is left: the blinded
\* key is empty or the new blind times the validator's public key
C24_NewBlindDiscardsArtifacts ==
  [][\A r \in DemoDraws :
       DemoGenerateBlind(r) =>
         LET update == GenerateBlindUpdate(state, generateBlind(r), now)
             blindedKey == scalarMultiplication(generateBlind(r), state.validatorPublicKey)
         IN  /\ update.blindedValidatorPublicKey = NoPoint
             /\ BlindArtifactsEmpty(update)
             /\ SameKeysAndParameters(update, state)
             /\ update.blind = generateBlind(r)
             /\ state' = [update EXCEPT !.blindedValidatorPublicKey =
                                          state'.blindedValidatorPublicKey]
             /\ state'.blindedValidatorPublicKey =
                  IF blindedKey.ok THEN blindedKey.val ELSE NoPoint]_vars

\* a new blind has been generated when the whole run had been made: the keys
\* are there, no artifact of the run is
C24_Witness ==
  /\ clicks = 1 /\ run = 8 /\ pending = {}
  /\ state.hsmPrivateKey # <<>> /\ state.blind # <<>>
  /\ state.blindedValidatorPublicKey # NoPoint
  /\ BlindArtifactsEmpty(state)

\* both key pairs, the blind and everything derived are empty
SessionEmpty(s) ==
  /\ s.hsmPrivateKey = <<>> /\ s.hsmPublicKey = NoPoint
  /\ s.validatorPrivateKey = <<>> /\ s.validatorPublicKey = NoPoint
  /\ s.blind = <<>> /\ s.blindedValidatorPublicKey = NoPoint
  /\ BlindArtifactsEmpty(s)

\* C26: after resetAll both key pairs, the blind and every derived artifact
\* are empty, hkdfSalt is '' and hkdfInfo is 'HS256 signature key'; from then
\* on they stay empty until generateKeys is invoked, also when a step started
\* before the reset completes after it
C26_ResetDiscardsSession ==
  [][/\ DemoResetAll =>
          /\ SessionEmpty(state')
          /\ state'.hkdfSalt = <<>> /\ state'.hkdfInfo = DefaultInfo
     /\ SessionEmpty(state) =>
          \/ SessionEmpty(state')
          \/ \E r1, r2 \in DemoDraws : DemoGenerateKeys(r1, r2)]_vars

\* C27: in every state of the Demo a non-empty jwt next to a non-empty
\* hmacKey is the token signJWT makes of the current jwtPayload with the
\* current hmacKey: no token of an earlier payload or of an earlier key is
\* left in the state
C27_TokenOfCurrentPayloadAndKey ==
  (state.jwt # <<>> /\ state.hmacKey # <<>>) =>
     LET payload == JsonParse(state.jwtPayload)
     IN  /\ payload.ok
         /\ SignJWT(payload.val, hkdfHexToArrayBuffer(state.hmacKey)) = Ok(state.jwt)

----------------------------------------------------------------------------
(* The order of the steps                                                    *)

\* what a handler needs in the state to do anything
InputsOf(kind) ==
  CASE kind = "performHSMECDH" ->
         state.hsmPrivateKey # <<>> /\ state.blindedValidatorPublicKey.x # <<>>
    [] kind = "generateDbG" -> state.hsmPrivateKey # <<>> /\ state.blind # <<>>
    [] kind = "deriveHMACKey" -> state.hsmEcdhResult.x # <<>>
    [] kind = "signJWT" -> state.hmacKey # <<>>
    [] kind = "performValidatorECDH" ->
         state.validatorPrivateKey # <<>> /\ state.dbPublicKey.x # <<>>
    [] kind = "validateJWS" -> state.validatorHmacKey # <<>> /\ state.jwt # <<>>

\* the handler is waiting for crypto.subtle before the step
Waiting(kind) == \E c \in pending : c.kind = kind

\* the step is the click that starts the handler
Starts(kind) == \E c \in pending' \ pending : c.kind = kind

\* C28: the guards enforce the order of the steps. A field gets a new
\* non-empty value only from its own step, and that step does nothing unless
\* its inputs exist when it is invoked: hsmEcdhResult only with a blinded
\* validator key, dbPublicKey only with keys and a blind, hmacKey only from a
\* deriveHMACKey started with hsmEcdhResult, jwt only from a signJWT started
\* with hmacKey, validatorHmacKey only from a performValidatorECDH started with
\* dbPublicKey, validationResult only from a validateJWS started with jwt and
\* validatorHmacKey
C28_GuardsOrderTheSteps ==
  [][/\ (state'.hsmEcdhResult # state.hsmEcdhResult /\ state'.hsmEcdhResult # NoPoint)
          => InputsOf("performHSMECDH")
     /\ (state'.dbPublicKey # state.dbPublicKey /\ state'.dbPublicKey # NoPoint)
          => InputsOf("generateDbG")
     /\ (state'.hmacKey # state.hmacKey /\ state'.hmacKey # <<>>)
          => Waiting("deriveHMACKey")
     /\ (state'.jwt # state.jwt /\ state'.jwt # <<>>) => Waiting("signJWT")
     /\ (state'.validatorHmacKey # state.validatorHmacKey /\ state'.validatorHmacKey # <<>>)
          => Waiting("performValidatorECDH")
     /\ (state'.validationResult # state.validationResult /\ state'.validationResult # "")
          => Waiting("validateJWS")
     /\ \A kind \in {"deriveHMACKey", "signJWT", "performValidatorECDH", "validateJWS"} :
          Starts(kind) => InputsOf(kind)
     /\ (DemoPerformHSMECDH /\ ~InputsOf("performHSMECDH")) => state' = state
     /\ (DemoDeriveHMACKey /\ ~InputsOf("deriveHMACKey")) => pending' = pending
     /\ (DemoSignJWT /\ ~InputsOf("signJWT")) => pending' = pending]_vars

\* a whole run and one further event have been made: every step found its
\* inputs and the token has been validated
C28_Witness ==
  /\ run = 8 /\ pending = {} /\ clicks = 1
  /\ state.validationResult # ""
  /\ state.jwt # <<>> /\ state.hmacKey # <<>> /\ state.validatorHmacKey # <<>>
  /\ state.hsmEcdhResult # NoPoint /\ state.dbPublicKey # NoPoint

----------------------------------------------------------------------------
(* What an edit of the HKDF parameters writes                                *)

\* the four fields an edit of salt or info clears are empty
HkdfOutputsEmpty(s) ==
  s.hkdfPrk = <<>> /\ s.hmacKey = <<>> /\ s.validatorHmacKey = <<>> /\ s.validationResult = ""

\* s and t agree on every field but hkdfSalt, hkdfInfo and the four fields an
\* edit clears
SameButHkdf(s, t) ==
  /\ s.hsmPrivateKey = t.hsmPrivateKey /\ s.hsmPublicKey = t.hsmPublicKey
  /\ s.validatorPrivateKey = t.validatorPrivateKey
  /\ s.validatorPublicKey = t.validatorPublicKey
  /\ s.hsmKeyRevealed = t.hsmKeyRevealed
  /\ s.blind = t.blind /\ s.blindedValidatorPublicKey = t.blindedValidatorPublicKey
  /\ s.hsmEcdhResult = t.hsmEcdhResult /\ s.dbPublicKey = t.dbPublicKey
  /\ s.validatorEcdhResult = t.validatorEcdhResult
  /\ s.jwtPayload = t.jwtPayload /\ s.jwt = t.jwt

\* C29: updateHkdfSalt and updateHkdfInfo store the edited parameter, empty
\* hkdfPrk, hmacKey, validatorHmacKey and validationResult, and leave every
\* other field, the other parameter included, as it was
C29_HkdfEditFrame ==
  [][/\ \A salt \in DemoSalts :
          DemoUpdateHkdfSalt(salt) =>
            /\ state'.hkdfSalt = salt /\ state'.hkdfInfo = state.hkdfInfo
            /\ HkdfOutputsEmpty(state') /\ SameButHkdf(state, state')
     /\ \A info \in DemoInfos :
          DemoUpdateHkdfInfo(info) =>
            /\ state'.hkdfInfo = info /\ state'.hkdfSalt = state.hkdfSalt
            /\ HkdfOutputsEmpty(state') /\ SameButHkdf(state, state')]_vars

\* the salt or the info has been edited after the token was validated: the
\* keys are gone, the token and both shared secrets are still there
C29_Witness ==
  /\ clicks = 1 /\ run = 8 /\ pending = {}
  /\ state.jwt # <<>> /\ state.hsmEcdhResult # NoPoint /\ state.validatorEcdhResult # NoPoint
  /\ HkdfOutputsEmpty(state)
  /\ (state.hkdfSalt # <<>> \/ state.hkdfInfo # DefaultInfo)

----------------------------------------------------------------------------
(* Steps that fail                                                           *)

\* C30: a step that fails writes nothing. When generateECKeyPair fails in
\* generateKeys, performECDH in performHSMECDH or performValidatorECDH,
\* calculateDbG in generateDbG, or when signJWT finds a payload that is not
\* JSON or that jose refuses, no field of the state is modified and no result
\* is left to be written later
C30_FailedStepWritesNothing ==
  [][/\ \A r1, r2 \in DemoDraws :
          (DemoGenerateKeys(r1, r2)
             /\ (~generateECKeyPair(r1).ok \/ ~generateECKeyPair(r2).ok))
            => state' = state
     /\ (DemoPerformHSMECDH /\ InputsOf("performHSMECDH")
           /\ ~performECDH(state.hsmPrivateKey, state.blindedValidatorPublicKey).ok)
          => state' = state
     /\ (DemoGenerateDbG /\ ~calculateDbG(state.hsmPrivateKey, state.blind).ok)
          => state' = state
     /\ (DemoPerformValidatorECDH
           /\ ~performECDH(state.validatorPrivateKey, state.dbPublicKey).ok)
          => state' = state /\ pending' = pending
     /\ (DemoSignJWT /\ InputsOf("signJWT")
           /\ \/ ~JsonParse(state.jwtPayload).ok
              \/ ~SignJWT(JsonParse(state.jwtPayload).val,
                          hkdfHexToArrayBuffer(state.hmacKey)).ok)
          => state' = state /\ pending' = pending]_vars

\* signJWT has been invoked on a payload that is not JSON: the key is there,
\* no token is and none is awaited
C30_Witness ==
  /\ run = 7 /\ pending = {} /\ clicks = 1
  /\ state.hmacKey # <<>> /\ state.jwt = <<>>
  /\ ~JsonParse(state.jwtPayload).ok

====
